---- MODULE Spec2Model ----
(***************************************************************************)
(* pq-utils (src/main.rs): the `cat`, `head` and `schema` subcommands.     *)
(*                                                                         *)
(* The Row Source (the parquet reader) is the environment: a file is an    *)
(* ordered sequence of column descriptors, an ordered sequence of rows     *)
(* aligned with them, and the points at which the reader reports an error  *)
(* (File::open, SerializedFileReader::new, get_row_iter, or the row        *)
(* iterator at one position).  Standard output and standard error accept   *)
(* every write.  The build is one for a 64-bit target: usize is as wide as  *)
(* u64.  One run of the program is one behaviour: Init chooses the command *)
(* line and the file; the actions are the steps of main and of the         *)
(* display_* functions.                                                    *)
(***************************************************************************)
EXTENDS Integers, Sequences, FiniteSets, TLC

VARIABLES
    cmd,          \* subcommand: "cat", "head" or "schema"
    format,       \* value of --format ("csv" for schema, which has none)
    num_records,  \* Option<u64>: <<>> is None, <<k>> is Some(k)
    openOk,       \* File::open succeeds
    parseOk,      \* SerializedFileReader::new succeeds
    iterOk,       \* get_row_iter succeeds
    columns,      \* schema_descr().columns(), in file-declared order
    fileRows,     \* the rows of the file, in file order
    errAt,        \* position at which the row iterator yields Err, 0: nowhere
    pc,           \* position in the program
    takeLeft,     \* Take::n, the rows the truncated iterator may still pull
    pos,          \* number of items the row iterator has yielded
    csvBuf,       \* records held in the csv::Writer's buffer
    written,      \* every record handed to csv::Writer::write_record so far
    jsonRows,     \* the Vec `rows` of display_parquet_data_json
    stdout,       \* what standard output has received
    stderr,       \* what standard error has received
    result,       \* "none", "ok", "err" (Result of display_*), "panic"
    failedAt,     \* row position whose Err or unwrap ended the run, 0: none
    exitCode      \* process exit status, -1 while running

vars == <<cmd, format, num_records, openOk, parseOk, iterOk,
          columns, fileRows, errAt, pc, takeLeft, pos, csvBuf, written,
          jsonRows, stdout, stderr, result, failedAt, exitCode>>

input == <<cmd, format, num_records, openOk, parseOk, iterOk,
           columns, fileRows, errAt>>

(***************************************************************************)
(* Bounds.  The integer width is scaled down: U64Bits stands for the 64    *)
(* bits of u64, so that u64::MAX is within reach of the row limits tried.  *)
(***************************************************************************)
MaxRows == 2
MaxCols == 2
U64Bits == 2

\* the width of usize: that of u64 on the 64-bit target
UsizeBits == U64Bits

RECURSIVE Pow2(_)
Pow2(n) == IF n = 0 THEN 1 ELSE 2 * Pow2(n - 1)

U64Max == Pow2(U64Bits) - 1

Min(a, b) == IF a <= b THEN a ELSE b

(***************************************************************************)
(* Field values (parquet::record::Field) and column descriptors.           *)
(* A field is a record of one shape; the tag says which payload counts:    *)
(* s for Str, i for the integer tags and for a finite float (the model's   *)
(* floats are integer-valued), b for Bool, cls for the class of a float.   *)
(***************************************************************************)
FStr(s)       == [tag |-> "Str",    s |-> s,  i |-> 0, b |-> FALSE, cls |-> "na"]
FInt(n)       == [tag |-> "Int",    s |-> "", i |-> n, b |-> FALSE, cls |-> "na"]
FLong(n)      == [tag |-> "Long",   s |-> "", i |-> n, b |-> FALSE, cls |-> "na"]
FShort(n)     == [tag |-> "Short",  s |-> "", i |-> n, b |-> FALSE, cls |-> "na"]
FBool(v)      == [tag |-> "Bool",   s |-> "", i |-> 0, b |-> v,     cls |-> "na"]
FNull         == [tag |-> "Null",   s |-> "", i |-> 0, b |-> FALSE, cls |-> "na"]
FFloat(c, n)  == [tag |-> "Float",  s |-> "", i |-> n, b |-> FALSE, cls |-> c]
FDouble(c, n) == [tag |-> "Double", s |-> "", i |-> n, b |-> FALSE, cls |-> c]

Col(n, p, l) == [name |-> n, physical |-> p, logical |-> l]

\* Option<LogicalType>: <<>> is None, <<t>> is Some(t)
ColId   == Col("id",   "T_INT64",      <<>>)
ColName == Col("name", "T_BYTE_ARRAY", <<"LT_String">>)
ColX    == Col("x",    "T_DOUBLE",     <<>>)
ColF    == Col("f",    "T_FLOAT",      <<>>)
ColN    == Col("n",    "T_INT32",      <<>>)
ColOk   == Col("ok",   "T_BOOLEAN",    <<>>)
ColS    == Col("s",    "T_INT32",      <<"LT_Integer16">>)

\* the field values a column of each kind can hold
ValuesOf(c) ==
    CASE c = ColId   -> {FLong(1), FLong(-12)}
      [] c = ColName -> {FStr("alice"), FStr("bob")}
      [] c = ColX    -> {FDouble("finite", 1), FDouble("nan", 0)}
      [] c = ColF    -> {FFloat("finite", 2), FFloat("inf", 0), FFloat("neginf", 0)}
      [] c = ColN    -> {FInt(7), FNull}
      [] c = ColOk   -> {FBool(TRUE), FBool(FALSE)}
      [] c = ColS    -> {FShort(-3), FNull}

CorePalette == {ColName, ColX}
FullPalette == {ColId, ColName, ColX, ColF, ColN, ColOk, ColS}

SeqsUpTo(S, lo, hi) == UNION {[1..n -> S] : n \in lo..hi}

\* rows aligned with the column descriptors, one field value per column
RECURSIVE RowsOf(_)
RowsOf(cols) ==
    IF cols = <<>> THEN {<<>>}
    ELSE {Append(r, v) : r \in RowsOf(SubSeq(cols, 1, Len(cols) - 1)),
                         v \in ValuesOf(cols[Len(cols)])}

(***************************************************************************)
(* Conversions.                                                            *)
(***************************************************************************)
Digit(d) == <<"0", "1", "2", "3", "4", "5", "6", "7", "8", "9">>[d + 1]

RECURSIVE NatToStr(_)
NatToStr(n) == IF n < 10 THEN Digit(n) ELSE NatToStr(n \div 10) \o Digit(n % 10)

IntToStr(n) == IF n < 0 THEN "-" \o NatToStr(0 - n) ELSE NatToStr(n)

\* variant: a cast that keeps one bit less than u64 has
AsUsize_narrow(k) == k % Pow2(UsizeBits - 1)

\* `as usize` of a u64: keeps the low bits that fit usize
AsUsize(k) == k % Pow2(UsizeBits)

\* variant: None falls back to 0 instead of u64::MAX
TakeCount_zero(nr) == AsUsize(IF nr = <<>> THEN 0 ELSE nr[1])

\* variant: a limit that lets one row more through
TakeCount_inclusive(nr) == IF nr = <<>> THEN AsUsize(U64Max) ELSE AsUsize(nr[1]) + 1

\* num_records.unwrap_or(u64::MAX) as usize, the argument of Iterator::take
TakeCount(nr) == AsUsize(IF nr = <<>> THEN U64Max ELSE nr[1])

\* field.1.to_string(): the Display form of a Field (a Str is shown quoted)
FieldToString(f) ==
    CASE f.tag = "Str"  -> "\"" \o f.s \o "\""
      [] f.tag = "Bool" -> (IF f.b THEN "true" ELSE "false")
      [] f.tag = "Null" -> "null"
      [] f.tag \in {"Int", "Long", "Short"} -> IntToStr(f.i)
      [] f.tag \in {"Float", "Double"} ->
            CASE f.cls = "nan"    -> "NaN"
              [] f.cls = "inf"    -> "inf"
              [] f.cls = "neginf" -> "-inf"
              [] OTHER            -> IntToStr(f.i) \o ".0"

\* the closure of display_parquet_data_csv: one field to one CSV field
CsvField(f) == IF f.tag = "Str" THEN f.s ELSE FieldToString(f)

CsvValues(row) == [i \in 1..Len(row) |-> CsvField(row[i])]

\* the header record: the column names in descriptor order
Headers(cols) == [i \in 1..Len(cols) |-> cols[i].name]

\* serde_json::Value
JString(s)   == [type |-> "string", repr |-> "na",    s |-> s,  i |-> 0, b |-> FALSE]
JNumberI(n)  == [type |-> "number", repr |-> "int",   s |-> "", i |-> n, b |-> FALSE]
JNumberF(n)  == [type |-> "number", repr |-> "float", s |-> "", i |-> n, b |-> FALSE]
JBool(v)     == [type |-> "bool",   repr |-> "na",    s |-> "", i |-> 0, b |-> v]

\* variant: a conversion that maps every float, finite or not, to a number
FromF64_lenient(cls, n) == <<JNumberF(n)>>

\* serde_json::Number::from_f64: None (<<>>) for NaN and the infinities
FromF64(cls, n) == IF cls = "finite" THEN <<JNumberF(n)>> ELSE <<>>

\* variant: only the Str arm and the fallback arm
JsonField_strings(f) ==
    IF f.tag = "Str" THEN <<JString(f.s)>> ELSE <<JString(FieldToString(f))>>

\* the match of display_parquet_data_json; <<>> where the unwrap panics
JsonField(f) ==
    CASE f.tag = "Str"    -> <<JString(f.s)>>
      [] f.tag = "Int"    -> <<JNumberI(f.i)>>
      [] f.tag = "Long"   -> <<JNumberI(f.i)>>
      [] f.tag = "Float"  -> FromF64(f.cls, f.i)
      [] f.tag = "Double" -> FromF64(f.cls, f.i)
      [] f.tag = "Bool"   -> <<JBool(f.b)>>
      [] OTHER            -> <<JString(FieldToString(f))>>

\* serde_json::Map::insert: a later value replaces an earlier one of the same key
MapInsert(obj, k, v) == [y \in (DOMAIN obj) \cup {k} |-> IF y = k THEN v ELSE obj[y]]

\* the inner loop over the first n fields of a row
RECURSIVE JsonObject(_, _, _)
JsonObject(row, cols, n) ==
    IF n = 0 THEN [panic |-> FALSE, obj |-> <<>>]
    ELSE LET prev == JsonObject(row, cols, n - 1)
             j    == JsonField(row[n])
         IN  IF prev.panic \/ j = <<>>
             THEN [panic |-> TRUE, obj |-> <<>>]
             ELSE [panic |-> FALSE, obj |-> MapInsert(prev.obj, cols[n].name, j[1])]

\* col.physical_type().to_string()
PhysicalToString(p) ==
    CASE p = "T_INT64"      -> "INT64"
      [] p = "T_INT32"      -> "INT32"
      [] p = "T_DOUBLE"     -> "DOUBLE"
      [] p = "T_FLOAT"      -> "FLOAT"
      [] p = "T_BOOLEAN"    -> "BOOLEAN"
      [] p = "T_BYTE_ARRAY" -> "BYTE_ARRAY"

\* variant: the Debug form of the Option itself
LogicalCell_debug(l) ==
    IF l = <<>> THEN "None"
    ELSE CASE l[1] = "LT_String"    -> "Some(String)"
           [] l[1] = "LT_Integer16" -> "Some(Integer { bit_width: 16, is_signed: true })"

\* col.logical_type().map(|lt| format!("{:?}", lt)).unwrap_or_default()
LogicalCell(l) ==
    IF l = <<>> THEN ""
    ELSE CASE l[1] = "LT_String"    -> "String"
           [] l[1] = "LT_Integer16" -> "Integer { bit_width: 16, is_signed: true }"

SchemaHeader == <<"Column name", "Physical type", "Logical type">>

SchemaRow(c) == <<c.name, PhysicalToString(c.physical), LogicalCell(c.logical)>>

\* the table of display_parquet_schema: the header, then one row per column
SchemaTable(cols) == <<SchemaHeader>> \o [i \in 1..Len(cols) |-> SchemaRow(cols[i])]

(***************************************************************************)
(* Initial states: a command line, a build and a file.  A file that cannot *)
(* be opened or parsed shows no columns and no rows.                       *)
(***************************************************************************)
InitWith(palette, maxCols) ==
    /\ cmd \in {"cat", "head", "schema"}
    /\ format \in (IF cmd = "schema" THEN {"csv"} ELSE {"csv", "json"})
    /\ num_records \in (IF cmd = "head" THEN {<<k>> : k \in 0..U64Max} ELSE {<<>>})
    /\ openOk \in BOOLEAN
    /\ parseOk \in BOOLEAN
    /\ iterOk \in BOOLEAN
    /\ columns \in (IF openOk /\ parseOk THEN SeqsUpTo(palette, 1, maxCols) ELSE {<<>>})
    /\ fileRows \in (IF openOk /\ parseOk /\ iterOk
                     THEN SeqsUpTo(RowsOf(columns), 0, MaxRows)
                     ELSE {<<>>})
    /\ errAt \in 0..Len(fileRows)
    /\ pc = "main"
    /\ takeLeft = 0
    /\ pos = 0
    /\ csvBuf = <<>>
    /\ written = <<>>
    /\ jsonRows = <<>>
    /\ stdout = <<>>
    /\ stderr = <<>>
    /\ result = "none"
    /\ failedAt = 0
    /\ exitCode = -1

Init == InitWith(CorePalette, MaxCols)

\* one-column files over every kind of column, for the projection of a field
InitField == InitWith(FullPalette, 1)

(***************************************************************************)
(* display_parquet_data / display_parquet_schema up to the row iterator.   *)
(***************************************************************************)
\* File::open(file)?
OpenFile ==
    /\ pc = "main"
    /\ IF openOk
       THEN pc' = "opened" /\ UNCHANGED result
       ELSE pc' = "returned" /\ result' = "err_open"
    /\ UNCHANGED <<input, takeLeft, pos, csvBuf, written, jsonRows, stdout,
                   stderr, failedAt, exitCode>>

\* SerializedFileReader::new(file)?
NewReader ==
    /\ pc = "opened"
    /\ IF parseOk
       THEN pc' = "reader" /\ UNCHANGED result
       ELSE pc' = "returned" /\ result' = "err_parse"
    /\ UNCHANGED <<input, takeLeft, pos, csvBuf, written, jsonRows, stdout,
                   stderr, failedAt, exitCode>>

\* reader.get_row_iter(None)? and iter.take(..)
GetRowIter ==
    /\ pc = "reader"
    /\ cmd \in {"cat", "head"}
    /\ IF iterOk
       THEN /\ pc' = (IF format = "csv" THEN "csv_header" ELSE "json_loop")
            /\ takeLeft' = TakeCount(num_records)
            /\ UNCHANGED result
       ELSE /\ pc' = "returned"
            /\ result' = "err_iter"
            /\ UNCHANGED takeLeft
    /\ UNCHANGED <<input, pos, csvBuf, written, jsonRows, stdout, stderr,
                   failedAt, exitCode>>

(***************************************************************************)
(* display_parquet_data_csv                                                *)
(***************************************************************************)
\* writer.write_record(&headers)?: the first record, into the empty buffer
CsvWriteHeader ==
    /\ pc = "csv_header"
    /\ csvBuf' = Append(csvBuf, Headers(columns))
    /\ written' = Append(written, Headers(columns))
    /\ pc' = "csv_loop"
    /\ UNCHANGED <<input, takeLeft, pos, jsonRows, stdout, stderr, result,
                   failedAt, exitCode>>

\* variant: the records still in the buffer are lost on the error return
CsvNext_lossy ==
    /\ pc = "csv_loop"
    /\ IF takeLeft = 0 \/ pos = Len(fileRows)
       THEN /\ pc' = "csv_flush"
            /\ UNCHANGED <<takeLeft, pos, csvBuf, written, stdout, result, failedAt>>
       ELSE /\ takeLeft' = takeLeft - 1
            /\ pos' = pos + 1
            /\ IF errAt = pos + 1
               THEN /\ csvBuf' = <<>>
                    /\ result' = "err_row"
                    /\ failedAt' = pos + 1
                    /\ pc' = "returned"
                    /\ UNCHANGED <<written, stdout>>
               ELSE /\ \E full \in BOOLEAN :
                          IF full
                          THEN /\ stdout' = stdout \o csvBuf
                               /\ csvBuf' = <<CsvValues(fileRows[pos + 1])>>
                          ELSE /\ stdout' = stdout
                               /\ csvBuf' = Append(csvBuf, CsvValues(fileRows[pos + 1]))
                    /\ written' = Append(written, CsvValues(fileRows[pos + 1]))
                    /\ pc' = "csv_loop"
                    /\ UNCHANGED <<result, failedAt>>
    /\ UNCHANGED <<input, jsonRows, stderr, exitCode>>

\* one turn of `for record in iter`: Take::next, record?, write_record.
\* A record that does not fit the writer's buffer sends the buffer to
\* standard output first; dropping the writer on the error return flushes it.
CsvNext ==
    /\ pc = "csv_loop"
    /\ IF takeLeft = 0 \/ pos = Len(fileRows)
       THEN /\ pc' = "csv_flush"
            /\ UNCHANGED <<takeLeft, pos, csvBuf, written, stdout, result, failedAt>>
       ELSE /\ takeLeft' = takeLeft - 1
            /\ pos' = pos + 1
            /\ IF errAt = pos + 1
               THEN /\ stdout' = stdout \o csvBuf
                    /\ csvBuf' = <<>>
                    /\ result' = "err_row"
                    /\ failedAt' = pos + 1
                    /\ pc' = "returned"
                    /\ UNCHANGED written
               ELSE /\ \E full \in BOOLEAN :
                          IF full
                          THEN /\ stdout' = stdout \o csvBuf
                               /\ csvBuf' = <<CsvValues(fileRows[pos + 1])>>
                          ELSE /\ stdout' = stdout
                               /\ csvBuf' = Append(csvBuf, CsvValues(fileRows[pos + 1]))
                    /\ written' = Append(written, CsvValues(fileRows[pos + 1]))
                    /\ pc' = "csv_loop"
                    /\ UNCHANGED <<result, failedAt>>
    /\ UNCHANGED <<input, jsonRows, stderr, exitCode>>

\* writer.flush()?; Ok(())
CsvFlush ==
    /\ pc = "csv_flush"
    /\ stdout' = stdout \o csvBuf
    /\ csvBuf' = <<>>
    /\ result' = "ok"
    /\ pc' = "returned"
    /\ UNCHANGED <<input, takeLeft, pos, written, jsonRows, stderr, failedAt, exitCode>>

(***************************************************************************)
(* display_parquet_data_json                                               *)
(***************************************************************************)
\* variant: each object is written to standard output as it is produced
JsonNext_streaming ==
    /\ pc = "json_loop"
    /\ IF takeLeft = 0 \/ pos = Len(fileRows)
       THEN /\ pc' = "json_write"
            /\ UNCHANGED <<takeLeft, pos, jsonRows, stdout, result, failedAt>>
       ELSE /\ takeLeft' = takeLeft - 1
            /\ pos' = pos + 1
            /\ IF errAt = pos + 1
               THEN /\ result' = "err_row"
                    /\ failedAt' = pos + 1
                    /\ pc' = "returned"
                    /\ UNCHANGED <<jsonRows, stdout>>
               ELSE LET p == JsonObject(fileRows[pos + 1], columns, Len(fileRows[pos + 1]))
                    IN  IF p.panic
                        THEN /\ result' = "panic"
                             /\ failedAt' = pos + 1
                             /\ pc' = "panicked"
                             /\ UNCHANGED <<jsonRows, stdout>>
                        ELSE /\ jsonRows' = Append(jsonRows, p.obj)
                             /\ stdout' = Append(stdout, <<p.obj>>)
                             /\ pc' = "json_loop"
                             /\ UNCHANGED <<result, failedAt>>
    /\ UNCHANGED <<input, csvBuf, written, stderr, exitCode>>

\* one turn of `for record in iter`: Take::next, record?, the projection of
\* the row (which panics at a non-finite float), rows.push(obj)
JsonNext ==
    /\ pc = "json_loop"
    /\ IF takeLeft = 0 \/ pos = Len(fileRows)
       THEN /\ pc' = "json_write"
            /\ UNCHANGED <<takeLeft, pos, jsonRows, result, failedAt>>
       ELSE /\ takeLeft' = takeLeft - 1
            /\ pos' = pos + 1
            /\ IF errAt = pos + 1
               THEN /\ result' = "err_row"
                    /\ failedAt' = pos + 1
                    /\ pc' = "returned"
                    /\ UNCHANGED jsonRows
               ELSE LET p == JsonObject(fileRows[pos + 1], columns, Len(fileRows[pos + 1]))
                    IN  IF p.panic
                        THEN /\ result' = "panic"
                             /\ failedAt' = pos + 1
                             /\ pc' = "panicked"
                             /\ UNCHANGED jsonRows
                        ELSE /\ jsonRows' = Append(jsonRows, p.obj)
                             /\ pc' = "json_loop"
                             /\ UNCHANGED <<result, failedAt>>
    /\ UNCHANGED <<input, csvBuf, written, stdout, stderr, exitCode>>

\* serde_json::to_writer(std::io::stdout(), &rows)?; Ok(())
JsonWrite ==
    /\ pc = "json_write"
    /\ stdout' = Append(stdout, jsonRows)
    /\ result' = "ok"
    /\ pc' = "returned"
    /\ UNCHANGED <<input, takeLeft, pos, csvBuf, written, jsonRows, stderr,
                   failedAt, exitCode>>

(***************************************************************************)
(* display_parquet_schema                                                  *)
(***************************************************************************)
\* the table is built row by row and printed by table.printstd()
PrintSchema ==
    /\ pc = "reader"
    /\ cmd = "schema"
    /\ stdout' = stdout \o SchemaTable(columns)
    /\ result' = "ok"
    /\ pc' = "returned"
    /\ UNCHANGED <<input, takeLeft, pos, csvBuf, written, jsonRows, stderr,
                   failedAt, exitCode>>

(***************************************************************************)
(* main                                                                    *)
(***************************************************************************)
ErrorPrefix == IF cmd = "schema" THEN "Error displaying schema: "
                                 ELSE "Error displaying file: "

\* if let Err(e) = display_*(..) { eprintln!(..) }, then main returns
MainReturn ==
    /\ pc = "returned"
    /\ stderr' = (IF result = "ok" THEN stderr
                  ELSE Append(stderr, [prefix |-> ErrorPrefix, e |-> result]))
    /\ exitCode' = 0
    /\ pc' = "done"
    /\ UNCHANGED <<input, takeLeft, pos, csvBuf, written, jsonRows, stdout,
                   result, failedAt>>

\* the unwrap of a None: the panic message goes to standard error, the
\* stack unwinds past main and the process ends with status 101
PanicAbort ==
    /\ pc = "panicked"
    /\ stderr' = Append(stderr, [prefix |-> "thread 'main' panicked at ",
                                 e |-> "called Option::unwrap() on a None value"])
    /\ exitCode' = 101
    /\ pc' = "done"
    /\ UNCHANGED <<input, takeLeft, pos, csvBuf, written, jsonRows, stdout,
                   result, failedAt>>

Next ==
    \/ OpenFile
    \/ NewReader
    \/ GetRowIter
    \/ CsvWriteHeader
    \/ CsvNext
    \/ CsvFlush
    \/ JsonNext
    \/ JsonWrite
    \/ PrintSchema
    \/ MainReturn
    \/ PanicAbort

Spec == Init /\ [][Next]_vars

SpecField == InitField /\ [][Next]_vars

(***************************************************************************)
(* Properties.                                                             *)
(***************************************************************************)
NumCols == Len(columns)
NumRows == Len(fileRows)

IsData == cmd \in {"cat", "head"}

\* the rows the run is to emit: the first min(K, M) for head, all M for cat
ToEmit == IF cmd = "head" THEN Min(num_records[1], NumRows) ELSE NumRows

\* the rows the truncated iterator lets through
Let == Min(TakeCount(num_records), NumRows)

NonFinite(f) == f.tag \in {"Float", "Double"} /\ f.cls # "finite"

ColumnNames == {columns[n].name : n \in 1..NumCols}

IsPrefix(a, b) == Len(a) <= Len(b) /\ a = SubSeq(b, 1, Len(a))

\* what C1 asks of the output of a head run
HeadOutputHasMinKM ==
    IF format = "csv"
    THEN /\ Len(stdout) = 1 + ToEmit
         /\ \A n \in 1..NumCols : stdout[1][n] = columns[n].name
    ELSE /\ Len(stdout) = 1
         /\ Len(stdout[1]) = ToEmit

C2_CatCsvLines ==
    (pc = "done" /\ cmd = "cat" /\ format = "csv" /\ result = "ok") =>
        /\ Len(stdout) = NumRows + 1
        /\ Len(stdout[1]) = NumCols

C2_Witness ==
    /\ pc = "done" /\ cmd = "cat" /\ format = "csv" /\ result = "ok"
    /\ NumRows = 2 /\ NumCols = 2 /\ Len(stdout) = 3

\* C3: a successful cat in JSON writes one array of exactly M objects, in
\* row order, and each object has exactly N keys, the column names.
C3_CatJsonArray ==
    (pc = "done" /\ cmd = "cat" /\ format = "json" /\ result = "ok") =>
        /\ Len(stdout) = 1
        /\ Len(stdout[1]) = NumRows
        /\ \A i \in 1..Len(stdout[1]) :
              /\ DOMAIN stdout[1][i] = ColumnNames
              /\ Cardinality(DOMAIN stdout[1][i]) = NumCols

RowHasNonFinite(i) == \E n \in 1..NumCols : NonFinite(fileRows[i][n])

\* the first of the rows to be emitted that holds a non-finite float
FirstNonFinite ==
    CHOOSE i \in 1..ToEmit :
        RowHasNonFinite(i) /\ \A k \in 1..(i - 1) : ~RowHasNonFinite(k)

\* C4: when a float field of the first min(K, M) rows is NaN or infinite,
\* JSON emission fails, in a way the input fixes (at the Row Source error
\* if one comes no later than the first such row, else by the panic at
\* that row), and standard output stays empty.
C4_NonFiniteJsonFails ==
    (/\ pc = "done" /\ IsData /\ format = "json"
     /\ \E i \in 1..ToEmit : RowHasNonFinite(i))
    => /\ stdout = <<>>
       /\ IF errAt \in 1..FirstNonFinite
          THEN result = "err_row" /\ failedAt = errAt /\ exitCode = 0
          ELSE result = "panic" /\ failedAt = FirstNonFinite /\ exitCode = 101

C4_Witness ==
    /\ pc = "done" /\ cmd = "head" /\ format = "json" /\ num_records = <<2>>
    /\ NumRows = 2 /\ ~RowHasNonFinite(1) /\ RowHasNonFinite(2)
    /\ Len(jsonRows) = 1 /\ result = "panic" /\ stdout = <<>>

\* C5: every failure, the non-finite float included, is reported once by
\* main with its prefix on standard error and the process exits with 0.
C5_FailuresHandledUniformly ==
    (pc = "done" /\ result # "ok") =>
        /\ stderr = <<[prefix |-> ErrorPrefix, e |-> result]>>
        /\ exitCode = 0

\* C6: head with limit COUNT pulls at most COUNT rows from the Row Source,
\* and an error the Row Source holds at a position after COUNT neither is
\* reached nor makes the command fail.
C6_HeadPullsAtMostCount ==
    cmd = "head" =>
        /\ pos <= num_records[1]
        /\ failedAt <= num_records[1]
        /\ (errAt > num_records[1] => result # "err_row")

C6_Witness ==
    /\ pc = "done" /\ cmd = "head" /\ num_records = <<1>>
    /\ NumRows = 2 /\ errAt = 2 /\ pos = 1 /\ result = "ok"

C8_SchemaTable ==
    (pc = "done" /\ cmd = "schema" /\ result = "ok") =>
        /\ Len(stdout) = NumCols + 1
        /\ stdout[1] = <<"Column name", "Physical type", "Logical type">>
        /\ \A n \in 1..NumCols :
              /\ Len(stdout[n + 1]) = 3
              /\ stdout[n + 1][1] = columns[n].name
              /\ stdout[n + 1][2] = PhysicalToString(columns[n].physical)
              /\ (columns[n].logical = <<>> => stdout[n + 1][3] = "")
              /\ (columns[n].logical # <<>> => stdout[n + 1][3] # "")

C8_Witness ==
    /\ pc = "done" /\ cmd = "schema" /\ result = "ok"
    /\ columns = <<ColName, ColX>>
    /\ stdout[3] = <<"x", "DOUBLE", "">>

\* C9: in JSON emission standard output stays empty until every row to be
\* emitted has been read and projected, and then receives the whole array
\* in one write: it never holds a proper prefix of the array.
C9_JsonBuffered ==
    (IsData /\ format = "json") =>
        /\ (pc \in {"main", "opened", "reader", "json_loop", "json_write", "panicked"}
               => stdout = <<>>)
        /\ (stdout # <<>> =>
               /\ result = "ok"
               /\ pos = Let
               /\ stdout = <<jsonRows>>
               /\ Len(jsonRows) = Let
               /\ \A i \in 1..Let :
                     jsonRows[i] = JsonObject(fileRows[i], columns, NumCols).obj)
        /\ (result # "ok" => stdout = <<>>)

C9_Witness ==
    /\ pc = "done" /\ IsData /\ format = "json"
    /\ result = "err_row" /\ failedAt = 2 /\ Len(jsonRows) = 1
    /\ stdout = <<>>

\* the CSV output of the run had the Row Source reported no error
ErrorFreeCsv == <<Headers(columns)>> \o [i \in 1..Let |-> CsvValues(fileRows[i])]

\* rows read without error so far
RowsReadOk == IF failedAt > 0 THEN pos - 1 ELSE pos

\* C10: in CSV emission the records handed to the writer are the header
\* (column names in descriptor order) and then the projections of the rows
\* read without error so far, in order; the header is handed over before
\* the first row is read; a Row Source error at row j+1 ends the run with
\* the header and exactly j data records on standard output, a prefix of
\* the output of the error-free run.
C10_CsvPrefix ==
    (IsData /\ format = "csv") =>
        /\ (pc \in {"main", "opened", "reader", "csv_header"} => written = <<>> /\ pos = 0)
        /\ (pc \in {"csv_loop", "csv_flush"} \/ result \in {"ok", "err_row"}) =>
               /\ Len(written) = 1 + RowsReadOk
               /\ \A n \in 1..NumCols : written[1][n] = columns[n].name
               /\ Len(written[1]) = NumCols
               /\ \A i \in 1..RowsReadOk : written[i + 1] = CsvValues(fileRows[i])
        /\ stdout \o csvBuf = written
        /\ IsPrefix(stdout, ErrorFreeCsv)
        /\ (result = "err_row" => stdout = written /\ Len(stdout) = failedAt)

C10_Witness ==
    /\ pc = "done" /\ IsData /\ format = "csv"
    /\ result = "err_row" /\ failedAt = 2 /\ Len(stdout) = 2
    /\ NumCols = 2 /\ stdout[1] = <<"x", "name">>

====
